---- MODULE Spec2Model ----
(***************************************************************************)
(* Verification model of the Financial RAG system (FastAPI + Pinecone +    *)
(* Cohere + Claude): metadata sanitization, batched upsert, tenant         *)
(* filtered retrieval, the query endpoint and the ingestion pipeline.      *)
(***************************************************************************)
EXTENDS Integers, Sequences, FiniteSets, TLC

VARIABLES
    san_in,        \* argument of a _sanitize_metadata call
    san_out,       \* the outcomes of the calls made so far, in order
    started,       \* app.main has been imported (services constructed)
    model_loads,   \* number of SentenceTransformer(...) constructions so far
    vector_model,  \* vector_service.model (0 before construction)
    search_model,  \* search_service.embedding_model (0 before construction)
    shared_model,  \* embeddings._model (0 is None)
    index,         \* the Pinecone index: record id -> metadata
    fs,            \* paths that exist under data/temp
    uuids,         \* number of uuid4() values drawn by upload_document
    upload_resp,   \* HTTP status of the last upload_document response (0: none yet)
    jobs,          \* the upsert callers: ingestion pipelines and direct calls
    q,             \* the query_rag request in flight or last answered
    status_resp    \* the last get_processing_status response (code 0: none yet)

vars == <<san_in, san_out, started, model_loads, vector_model, search_model,
          shared_model, index, fs, uuids, upload_resp, jobs, q, status_resp>>

(***************************************************************************)
(* Python values.  A value is a record [t, v]: t is the Python type, v the *)
(* payload.  A str is a sequence of text pieces (<<>> is the empty str).   *)
(***************************************************************************)
PStr(s)   == [t |-> "str",   v |-> s]
PInt(n)   == [t |-> "int",   v |-> n]
PFloat(s) == [t |-> "float", v |-> s]
PBool(b)  == [t |-> "bool",  v |-> b]
PNone     == [t |-> "none",  v |-> 0]
PList(l)  == [t |-> "list",  v |-> l]
PDict(d)  == [t |-> "dict",  v |-> d]
\* a value of any other type (tuple, bytes, object): its str() text, and
\* whether str() succeeds at all
PObj(repr, ok) == [t |-> "obj", v |-> [repr |-> repr, str_ok |-> ok]]

Raised(cls) == [ok |-> FALSE, exc |-> cls]
Returned(x) == [ok |-> TRUE, val |-> x]

\* json.dumps raises TypeError on a value that holds a non-JSON type
RECURSIVE JsonSerializable(_)
JsonSerializable(x) ==
    CASE x.t \in {"str", "int", "float", "bool", "none"} -> TRUE
      [] x.t = "list" -> \A i \in DOMAIN x.v : JsonSerializable(x.v[i])
      [] x.t = "dict" -> \A k \in DOMAIN x.v : JsonSerializable(x.v[k])
      [] OTHER -> FALSE

RECURSIVE JoinPieces(_, _)
JoinPieces(seqs, sep) ==
    IF Len(seqs) = 0 THEN <<>>
    ELSE IF Len(seqs) = 1 THEN seqs[1]
    ELSE seqs[1] \o sep \o JoinPieces(Tail(seqs), sep)

SetToSeq(S) ==
    CHOOSE s \in [1..Cardinality(S) -> S] : \A i, j \in DOMAIN s : i # j => s[i] # s[j]

\* json.dumps: the JSON text of a serializable value, as text pieces
RECURSIVE json_dumps(_)
json_dumps(x) ==
    CASE x.t = "str"   -> <<"\"">> \o x.v \o <<"\"">>
      [] x.t = "int"   -> <<ToString(x.v)>>
      [] x.t = "float" -> <<x.v>>
      [] x.t = "bool"  -> IF x.v THEN <<"true">> ELSE <<"false">>
      [] x.t = "none"  -> <<"null">>
      [] x.t = "list"  ->
            <<"[">> \o JoinPieces([i \in DOMAIN x.v |-> json_dumps(x.v[i])], <<", ">>) \o <<"]">>
      [] x.t = "dict"  ->
            LET ks == SetToSeq(DOMAIN x.v)
            IN  <<"{">> \o JoinPieces([i \in DOMAIN ks |->
                                <<"\"", ks[i], "\": ">> \o json_dumps(x.v[ks[i]])], <<", ">>)
                \o <<"}">>

(***************************************************************************)
(* VectorService._sanitize_metadata                                        *)
(***************************************************************************)
exclude_fields == {"coordinates", "parent_id", "element_id", "orig_elements"}
json_fields == {"metadata_json"}

IsPrimitive(x) == x.t \in {"str", "int", "float", "bool"}
AllStrings(l) == \A i \in DOMAIN l : l[i].t = "str"

Drop == [act |-> "drop"]
Keep(x) == [act |-> "keep", val |-> x]
Fail == [act |-> "raise"]

DumpField(x) == IF JsonSerializable(x) THEN Keep(PStr(json_dumps(x))) ELSE Fail

\* variant: dict values pass through unconverted
SanitizeField_KeepDicts(key, value) ==
    IF key \in exclude_fields THEN Drop
    ELSE IF value.t = "none" THEN Drop
    ELSE IF IsPrimitive(value) \/ value.t = "dict" THEN Keep(value)
    ELSE IF value.t = "list" THEN
        IF AllStrings(value.v) THEN Keep(value)
        ELSE IF key \in json_fields THEN DumpField(value)
        ELSE Drop
    ELSE IF value.v.str_ok THEN Keep(PStr(<<value.v.repr>>))
    ELSE Drop

\* variant: dict values are serialized whatever their key
SanitizeField_DumpAll(key, value) ==
    IF key \in exclude_fields THEN Drop
    ELSE IF value.t = "none" THEN Drop
    ELSE IF IsPrimitive(value) THEN Keep(value)
    ELSE IF value.t = "list" THEN
        IF AllStrings(value.v) THEN Keep(value)
        ELSE IF key \in json_fields THEN DumpField(value)
        ELSE Drop
    ELSE IF value.t = "dict" THEN DumpField(value)
    ELSE IF value.v.str_ok THEN Keep(PStr(<<value.v.repr>>))
    ELSE Drop

\* variant: a value under an allowlisted key is serialized whatever its type
SanitizeField_DumpStrings(key, value) ==
    IF key \in exclude_fields THEN Drop
    ELSE IF value.t = "none" THEN Drop
    ELSE IF key \in json_fields /\ value.t # "obj" THEN DumpField(value)
    ELSE IF IsPrimitive(value) THEN Keep(value)
    ELSE IF value.t = "list" THEN
        IF AllStrings(value.v) THEN Keep(value) ELSE Drop
    ELSE IF value.t = "dict" THEN Drop
    ELSE IF value.v.str_ok THEN Keep(PStr(<<value.v.repr>>))
    ELSE Drop

\* one iteration of the loop over metadata.items()
SanitizeField(key, value) ==
    IF key \in exclude_fields THEN Drop
    ELSE IF value.t = "none" THEN Drop
    ELSE IF IsPrimitive(value) THEN Keep(value)
    ELSE IF value.t = "list" THEN
        IF AllStrings(value.v) THEN Keep(value)
        ELSE IF key \in json_fields THEN DumpField(value)
        ELSE Drop
    ELSE IF value.t = "dict" THEN
        IF key \in json_fields THEN DumpField(value) ELSE Drop
    ELSE IF value.v.str_ok THEN Keep(PStr(<<value.v.repr>>))
    ELSE Drop

_sanitize_metadata(metadata) ==
    IF \E k \in DOMAIN metadata : SanitizeField(k, metadata[k]).act = "raise"
    THEN Raised("TypeError")
    ELSE Returned([k \in {kk \in DOMAIN metadata : SanitizeField(kk, metadata[kk]).act = "keep"}
                      |-> SanitizeField(k, metadata[k]).val])

(***************************************************************************)
(* The running system                                                      *)
(***************************************************************************)
sanvars == <<san_in, san_out>>
sysvars == <<started, model_loads, vector_model, search_model, shared_model,
             index, fs, uuids, upload_resp, jobs, q, status_resp>>

batch_size == 100
RETRIEVAL_LIMIT == 50
RERANK_LIMIT == 10
MAX_UPLOAD_MB == 50
_MAX_UPLOAD_BYTES == MAX_UPLOAD_MB * 1024 * 1024
_ALLOWED_EXTENSIONS == {".pdf", ".txt", ".html"}

Users == {"A", "B"}

Min(a, b) == IF a < b THEN a ELSE b
Rep(c, n) == [i \in 1..n |-> c]
Take(s, n) == SubSeq(s, 1, Min(n, Len(s)))
Range(s) == {s[i] : i \in DOMAIN s}

\* {**a, **b}: b wins on a key collision
Merge(a, b) == [k \in DOMAIN a \cup DOMAIN b |-> IF k \in DOMAIN b THEN b[k] ELSE a[k]]

(***************************************************************************)
(* DocumentService.process_file.  A document is what the loader and the    *)
(* splitter make of the file: loadable or not, and its chunks in source    *)
(* order, each with page_content and element metadata.                     *)
(***************************************************************************)
\* variant: the id leaves out the position of the chunk
ChunkId_NoIndex(metadata, i) == metadata["file_id"].v \o <<"#chunk">>

\* f"{metadata.get('file_id', ...)}#chunk{i}"
ChunkId(metadata, i) == metadata["file_id"].v \o <<"#chunk", ToString(i)>>

ChunkMetadata(chunk) ==
    [k \in {kk \in DOMAIN chunk.metadata : chunk.metadata[kk].t # "none"} |-> chunk.metadata[k]]

MergedMetadata(chunk, metadata) ==
    Merge(Merge(ChunkMetadata(chunk), metadata), [k \in {"text"} |-> PStr(chunk.page_content)])

process_file(doc, metadata) ==
    [n \in DOMAIN doc.chunks |->
        [id       |-> ChunkId(metadata, n - 1),
         text     |-> doc.chunks[n].page_content,
         metadata |-> MergedMetadata(doc.chunks[n], metadata)]]

(***************************************************************************)
(* The Pinecone index (external): upsert replaces by id; query returns the *)
(* top_k records that pass the metadata filter, in score order.            *)
(***************************************************************************)
IndexUpsert(idx, vectors) ==
    LET ids == {vectors[k].id : k \in DOMAIN vectors}
        last(id) == LET ks == {k \in DOMAIN vectors : vectors[k].id = id}
                    IN  CHOOSE k \in ks : \A m \in ks : m <= k
    IN  [id \in DOMAIN idx \cup ids |->
            IF id \in ids THEN vectors[last(id)].metadata ELSE idx[id]]

\* variant: the filter tests only that a user_id is present
UserFilter_AnyTenant(metadata, user_id) == "user_id" \in DOMAIN metadata

\* filter={"user_id": {"$eq": user_id}}
UserFilter(metadata, user_id) ==
    /\ "user_id" \in DOMAIN metadata
    /\ metadata["user_id"] = PStr(<<user_id>>)

Filtered(idx, user_id) == {id \in DOMAIN idx : UserFilter(idx[id], user_id)}

\* the sequences of n distinct elements of S
Arrangements(S, n) ==
    {s \in [1..n -> S] : \A i, j \in 1..n : i # j => s[i] # s[j]}

\* the possible 'matches' lists of index.query(top_k, filter)
QueryMatches(idx, user_id, top_k) ==
    LET hits == Filtered(idx, user_id)
    IN  {[n \in DOMAIN ord |-> [id |-> ord[n], metadata |-> idx[ord[n]]]] :
            ord \in Arrangements(hits, Min(top_k, Cardinality(hits)))}

(***************************************************************************)
(* VectorService.upsert_chunks, one pass of its batch loop at a time.      *)
(* A caller is an ingestion pipeline or a direct call (as in the tests).   *)
(***************************************************************************)
NewCaller(kind, user, path, metadata, doc, chunks, pc, exit) ==
    [kind |-> kind, user |-> user, file_path |-> path, metadata |-> metadata,
     doc |-> doc, chunks |-> chunks, pc |-> pc, exit |-> exit, i |-> 0,
     encode_calls |-> <<>>, upsert_calls |-> <<>>,
     cleanups |-> 0, remove_failed |-> FALSE,
     raised |-> "", error_logs |-> 0, result |-> ""]

\* variant: the slice takes one chunk too many
Batch_Inclusive(chunks, i) == SubSeq(chunks, i + 1, Min(i + batch_size + 1, Len(chunks)))

\* chunks[i : i + batch_size]
Batch(chunks, i) == SubSeq(chunks, i + 1, Min(i + batch_size, Len(chunks)))

\* texts = [c["text"] for c in batch], the argument of model.encode
Texts(batch) == [k \in DOMAIN batch |-> batch[k].text]

VectorsToUpsert(batch) ==
    [k \in DOMAIN batch |->
        [id |-> batch[k].id, metadata |-> _sanitize_metadata(batch[k].metadata).val]]

Ids(vectors) == [k \in DOMAIN vectors |-> vectors[k].id]

AfterUpsert(job) == IF job.kind = "pipeline" THEN "finally" ELSE "done"

\* how a direct call of upsert_chunks ends; a pipeline ends in its finally block
Ended(job, outcome) == IF job.kind = "pipeline" THEN "" ELSE outcome
\* logger.error of the pipeline's except clause
Logged(job) == IF job.kind = "pipeline" THEN job.error_logs + 1 ELSE job.error_logs

\* variant: the except clause logs and goes on with the next batch
BatchFailed_Continue(job, attempted) ==
    LET next == job.i + batch_size
    IN  [job EXCEPT !.i = next,
                    !.pc = IF next >= Len(job.chunks) THEN AfterUpsert(job) ELSE "upsert",
                    !.exit = IF next >= Len(job.chunks) THEN "success" ELSE @,
                    !.result = IF next >= Len(job.chunks) THEN Ended(job, "returned") ELSE @,
                    !.encode_calls = Append(@, Texts(Batch(job.chunks, job.i))),
                    !.upsert_calls = IF attempted
                                     THEN Append(@, [ids |-> Ids(VectorsToUpsert(Batch(job.chunks, job.i))),
                                                     ok |-> FALSE])
                                     ELSE @]

\* the except clause of the batch loop: log and re-raise
BatchFailed(job, attempted) ==
    [job EXCEPT !.pc = AfterUpsert(job), !.exit = "upsert_error",
                !.raised = "UpsertError", !.error_logs = Logged(job),
                !.result = Ended(job, "raised"),
                !.encode_calls = Append(@, Texts(Batch(job.chunks, job.i))),
                !.upsert_calls = IF attempted
                                 THEN Append(@, [ids |-> Ids(VectorsToUpsert(Batch(job.chunks, job.i))),
                                                 ok |-> FALSE])
                                 ELSE @]

BatchUpserted(job) ==
    LET next == job.i + batch_size
    IN  [job EXCEPT !.i = next,
                    !.pc = IF next >= Len(job.chunks) THEN AfterUpsert(job) ELSE "upsert",
                    !.exit = IF next >= Len(job.chunks) THEN "success" ELSE @,
                    !.result = IF next >= Len(job.chunks) THEN Ended(job, "returned") ELSE @,
                    !.encode_calls = Append(@, Texts(Batch(job.chunks, job.i))),
                    !.upsert_calls = Append(@, [ids |-> Ids(VectorsToUpsert(Batch(job.chunks, job.i))),
                                                ok |-> TRUE])]

UpsertBatch(j) ==
    /\ jobs[j].pc = "upsert"
    /\ LET job == jobs[j]
           batch == Batch(job.chunks, job.i)
           sane == \A k \in DOMAIN batch : _sanitize_metadata(batch[k].metadata).ok
       IN  \E provider \in {"ok", "encode_raises", "upsert_raises"} :
              IF provider = "encode_raises"
              THEN /\ jobs' = [jobs EXCEPT ![j] = BatchFailed(job, FALSE)]
                   /\ UNCHANGED index
              ELSE IF ~sane
              THEN /\ jobs' = [jobs EXCEPT ![j] = BatchFailed(job, FALSE)]
                   /\ UNCHANGED index
              ELSE IF provider = "upsert_raises"
              THEN /\ jobs' = [jobs EXCEPT ![j] = BatchFailed(job, TRUE)]
                   /\ UNCHANGED index
              ELSE /\ jobs' = [jobs EXCEPT ![j] = BatchUpserted(job)]
                   /\ index' = IndexUpsert(index, VectorsToUpsert(batch))
    /\ UNCHANGED <<sanvars, status_resp, started, model_loads, vector_model, search_model,
                   shared_model, fs, uuids, upload_resp, q>>

(***************************************************************************)
(* Documents and direct inputs used by the specifications                  *)
(***************************************************************************)
Element(text, metadata) == [page_content |-> <<text>>, metadata |-> metadata]
Doc(chunks) == [ok |-> TRUE, chunks |-> chunks]
Unreadable == [ok |-> FALSE, chunks |-> <<>>]
NoDoc == Unreadable

PageMeta ==
    [page_number |-> PInt(1), filename |-> PStr(<<"tmp.pdf">>),
     languages |-> PList(<<PStr(<<"eng">>)>>),
     coordinates |-> PDict([system |-> PStr(<<"PixelSpace">>)]),
     parent_id |-> PNone]
\* element metadata that happens to carry the caller's keys
ForeignMeta == [user_id |-> PStr(<<"B">>), file_id |-> PStr(<<"zz">>), text |-> PStr(<<"omega">>)]
\* an allowlisted field json.dumps cannot serialize
BadJsonMeta == [metadata_json |-> PDict([raw |-> PObj("b'x'", TRUE)])]

SmallDocs ==
    { Unreadable,
      Doc(<<>>),
      Doc(<<Element("alpha", PageMeta)>>),
      Doc(<<Element("alpha", ForeignMeta), Element("beta", PageMeta)>>),
      Doc(<<Element("gamma", BadJsonMeta)>>) }

MaxChunks == 201
BadAt == 150

LineMeta == [page_number |-> PInt(1)]

\* documents of numbered lines
LargeDocs ==
    { Doc([n \in 1..m |-> Element(ToString(n), LineMeta)]) : m \in {batch_size, batch_size + 1, MaxChunks} }
    \cup { Doc([n \in 1..MaxChunks |-> Element(ToString(n), IF n = BadAt THEN BadJsonMeta ELSE LineMeta)]) }

DirectChunk(id, text, metadata) == [id |-> <<id>>, text |-> <<text>>, metadata |-> metadata]

\* the input of the isolation test, and lists that mix tenants, omit
\* user_id, carry no usable text, or use an id another tenant uses
DirectInputs ==
    { <<>>,
      <<DirectChunk("doc_1", "secret", [user_id |-> PStr(<<"A">>), filename |-> PStr(<<"secrets.txt">>)])>>,
      <<DirectChunk("a1", "alpha", [user_id |-> PStr(<<"A">>), text |-> PStr(<<"alpha">>)]),
        DirectChunk("a2", "onlyA", [user_id |-> PStr(<<"A">>), text |-> PStr(<<"onlyA">>)])>>,
      <<DirectChunk("b1", "alpha", [user_id |-> PStr(<<"B">>), text |-> PStr(<<"alpha">>)]),
        DirectChunk("doc_1", "mine", [user_id |-> PStr(<<"B">>), text |-> PStr(<<"mine">>)])>>,
      <<DirectChunk("doc_2", "stray", [filename |-> PStr(<<"x.txt">>), text |-> PStr(<<"stray">>)]),
        DirectChunk("doc_3", "void", [user_id |-> PNone, text |-> PStr(<<"void">>)]),
        DirectChunk("b2", "blank", [user_id |-> PStr(<<"B">>), text |-> PStr(<<>>)])>> }

(***************************************************************************)
(* upload_document                                                         *)
(***************************************************************************)

FileName(stem, ext) == [stem |-> stem, ext |-> ext]
NoFileName == FileName("", "")
FileNames == {NoFileName, FileName("report", ".pdf"), FileName("NOTES", ".TXT"),
              FileName("run", ".exe"), FileName("README", "")}

\* os.path.splitext(name)[1].lower()
Lower(s) == CASE s = ".TXT" -> ".txt" [] s = ".PDF" -> ".pdf" [] OTHER -> s
Extension(name) == Lower(name.ext)

\* the Content-Length header: absent, malformed, or a number
ContentLengths == {[given |-> FALSE, int |-> FALSE, n |-> 0],
                   [given |-> TRUE, int |-> FALSE, n |-> 0],
                   [given |-> TRUE, int |-> TRUE, n |-> _MAX_UPLOAD_BYTES],
                   [given |-> TRUE, int |-> TRUE, n |-> _MAX_UPLOAD_BYTES + 1]}

Uuid4(n) == "f" \o ToString(n)
UploadMetadata(file_id, name, user_id, ext) ==
    [file_id |-> PStr(<<file_id>>), filename |-> PStr(<<name.stem \o name.ext>>),
     user_id |-> PStr(<<user_id>>), extension |-> PStr(<<ext>>)]

\* the size of the request body; a Content-Length header that is a number
\* states it (the server reads no more than that), a request sent with
\* chunked transfer encoding carries no Content-Length
PayloadSizes == {1024, _MAX_UPLOAD_BYTES, _MAX_UPLOAD_BYTES + 1}
Consistent(cl, size) == (cl.given /\ cl.int) => cl.n = size

UploadRequest(cl, size, name, save) == [cl |-> cl, size |-> size, name |-> name, save |-> save]
NoRequest == UploadRequest([given |-> FALSE, int |-> FALSE, n |-> 0], 0, NoFileName, "")
UploadResponse(code, detail, req) == [code |-> code, detail |-> detail, req |-> req]

Reject(code, detail, req) ==
    /\ upload_resp' = UploadResponse(code, detail, req)
    /\ UNCHANGED <<fs, uuids, jobs>>

upload_document(cl, size, name, user_id, save, doc) ==
    /\ started
    /\ Consistent(cl, size)
    /\ LET req == UploadRequest(cl, size, name, save)
       IN  IF cl.given /\ cl.int /\ cl.n > _MAX_UPLOAD_BYTES
           THEN Reject(413, "File too large", req)
           ELSE IF name = NoFileName
           THEN Reject(400, "No filename provided", req)
           ELSE IF Extension(name) \notin _ALLOWED_EXTENSIONS
           THEN Reject(400, "Unsupported file type", req)
           ELSE LET temp_file_id == Uuid4(uuids + 1)
                    file_path == <<temp_file_id, Extension(name)>>
                IN  /\ uuids' = uuids + 1
                    /\ IF save = "open_raises"
                       THEN /\ upload_resp' = UploadResponse(500, "Could not save file", req)
                            /\ UNCHANGED <<fs, jobs>>
                       ELSE IF save = "copy_raises"
                       THEN /\ upload_resp' = UploadResponse(500, "Could not save file", req)
                            /\ fs' = fs \cup {file_path}
                            /\ UNCHANGED jobs
                       ELSE /\ upload_resp' = UploadResponse(200, "ingestion_started", req)
                            /\ fs' = fs \cup {file_path}
                            /\ jobs' = Append(jobs,
                                   NewCaller("pipeline", user_id, file_path,
                                             UploadMetadata(temp_file_id, name, user_id, Extension(name)),
                                             doc, <<>>, "process_file", ""))
    /\ UNCHANGED <<sanvars, status_resp, started, model_loads, vector_model, search_model,
                   shared_model, index, q>>

\* a direct call of upsert_chunks
UpsertChunks(chunks) ==
    /\ started
    /\ jobs' = Append(jobs,
                 IF chunks = <<>>
                 THEN [NewCaller("direct", "", <<>>, <<>>, NoDoc, chunks, "done", "empty")
                          EXCEPT !.result = "returned"]
                 ELSE NewCaller("direct", "", <<>>, <<>>, NoDoc, chunks, "upsert", ""))
    /\ UNCHANGED <<sanvars, status_resp, started, model_loads, vector_model, search_model,
                   shared_model, index, fs, uuids, upload_resp, q>>

(***************************************************************************)
(* run_ingestion_pipeline                                                  *)
(***************************************************************************)
\* variant: the except clause logs the error and does not re-raise it
ProcessFile_NoReraise(j) ==
    /\ jobs[j].pc = "process_file"
    /\ LET job == jobs[j]
           chunks == process_file(job.doc, job.metadata)
       IN  jobs' = [jobs EXCEPT ![j] =
              IF ~job.doc.ok
              THEN [job EXCEPT !.pc = "finally", !.exit = "parse_error",
                               !.error_logs = @ + 1]
              ELSE IF chunks = <<>>
              THEN [job EXCEPT !.pc = "finally", !.exit = "zero_chunks"]
              ELSE [job EXCEPT !.pc = "upsert", !.chunks = chunks]]
    /\ UNCHANGED <<sanvars, status_resp, started, model_loads, vector_model, search_model,
                   shared_model, index, fs, uuids, upload_resp, q>>

\* step 1: await document_service.process_file, the zero-chunk return, and
\* the except clause for an error of the loader or the splitter
ProcessFile(j) ==
    /\ jobs[j].pc = "process_file"
    /\ LET job == jobs[j]
           chunks == process_file(job.doc, job.metadata)
       IN  jobs' = [jobs EXCEPT ![j] =
              IF ~job.doc.ok
              THEN [job EXCEPT !.pc = "finally", !.exit = "parse_error",
                               !.raised = "ParseError", !.error_logs = @ + 1]
              ELSE IF chunks = <<>>
              THEN [job EXCEPT !.pc = "finally", !.exit = "zero_chunks"]
              ELSE [job EXCEPT !.pc = "upsert", !.chunks = chunks]]
    /\ UNCHANGED <<sanvars, status_resp, started, model_loads, vector_model, search_model,
                   shared_model, index, fs, uuids, upload_resp, q>>

\* variant: cleanup written after the try block instead of in a finally
Cancel_NoFinally(j) ==
    /\ jobs[j].kind = "pipeline"
    /\ jobs[j].pc \in {"process_file", "upsert"}
    /\ jobs' = [jobs EXCEPT ![j] = [@ EXCEPT !.pc = "done", !.exit = "cancelled",
                                              !.raised = "CancelledError", !.result = "raised"]]
    /\ UNCHANGED <<sanvars, status_resp, started, model_loads, vector_model, search_model,
                   shared_model, index, fs, uuids, upload_resp, q>>

\* CancelledError thrown into the pipeline at one of its two awaits (not an
\* Exception: the except clause does not see it)
Cancel(j) ==
    /\ jobs[j].kind = "pipeline"
    /\ jobs[j].pc \in {"process_file", "upsert"}
    /\ jobs' = [jobs EXCEPT ![j] = [@ EXCEPT !.pc = "finally", !.exit = "cancelled",
                                              !.raised = "CancelledError"]]
    /\ UNCHANGED <<sanvars, status_resp, started, model_loads, vector_model, search_model,
                   shared_model, index, fs, uuids, upload_resp, q>>

\* the finally block
Cleanup(job, remove_ok) ==
    [job EXCEPT !.pc = "done", !.cleanups = @ + 1,
                !.remove_failed = (job.file_path \in fs) /\ ~remove_ok,
                !.result = IF job.raised = "" THEN "returned" ELSE "raised"]

Finally(j) ==
    /\ jobs[j].pc = "finally"
    /\ \E remove_ok \in BOOLEAN :
          /\ jobs' = [jobs EXCEPT ![j] = Cleanup(jobs[j], remove_ok)]
          /\ fs' = IF jobs[j].file_path \in fs /\ remove_ok THEN fs \ {jobs[j].file_path} ELSE fs
    /\ UNCHANGED <<sanvars, status_resp, started, model_loads, vector_model, search_model,
                   shared_model, index, uuids, upload_resp, q>>

(***************************************************************************)
(* get_processing_status: two index queries filtered by file_id and        *)
(* user_id, the first with top_k=1, the second with top_k=COUNT_TOP_K.     *)
(***************************************************************************)
COUNT_TOP_K == 10000

StatusResponse(code, status, file_id, user_id, chunk_count) ==
    [code |-> code, status |-> status, file_id |-> file_id, user_id |-> user_id,
     chunk_count |-> chunk_count]
NoStatus == StatusResponse(0, "", "", "", 0)

\* filter={"file_id": {"$eq": file_id}, "user_id": {"$eq": user_id}}
StatusFilter(metadata, file_id, user_id) ==
    /\ "file_id" \in DOMAIN metadata
    /\ metadata["file_id"] = PStr(<<file_id>>)
    /\ UserFilter(metadata, user_id)

\* provider: what the Pinecone client and the two queries do
get_processing_status(file_id, user_id) ==
    /\ started
    /\ LET hits == {id \in DOMAIN index : StatusFilter(index[id], file_id, user_id)}
           matches == Min(1, Cardinality(hits))
           chunk_count == Min(COUNT_TOP_K, Cardinality(hits))
       IN  \E provider \in {"ok", "client_raises", "query_raises", "count_raises"} :
              status_resp' =
                 IF provider = "client_raises"
                 THEN StatusResponse(500, "", file_id, user_id, 0)
                 ELSE IF provider = "query_raises"
                 THEN StatusResponse(200, "processing", file_id, user_id, 0)
                 ELSE IF matches > 0
                 THEN IF provider = "count_raises"
                      THEN StatusResponse(200, "processing", file_id, user_id, 0)
                      ELSE StatusResponse(200, "completed", file_id, user_id, chunk_count)
                 ELSE StatusResponse(200, "processing", file_id, user_id, 0)
    /\ UNCHANGED <<sanvars, started, model_loads, vector_model, search_model,
                   shared_model, index, fs, uuids, upload_resp, jobs, q>>

(***************************************************************************)
(* Module import: vector_service = VectorService() and                     *)
(* search_service = SearchService() each load the embedding model.         *)
(***************************************************************************)
LoadModel(loads) == loads + 1

ImportServices ==
    /\ ~started
    /\ started' = TRUE
    /\ search_model' = LoadModel(model_loads)
    /\ vector_model' = LoadModel(LoadModel(model_loads))
    /\ model_loads' = LoadModel(LoadModel(model_loads))
    /\ UNCHANGED <<sanvars, status_resp, shared_model, index, fs, uuids, upload_resp, jobs, q>>

(***************************************************************************)
(* Exceptions and messages.  str(e) is a sequence of characters.           *)
(***************************************************************************)
Exc(cls, msg) == [cls |-> cls, msg |-> msg, attr |-> "absent", status_code |-> 0]
\* an anthropic.APIError: the status_code attribute is present, absent, or
\* raises when read
ApiError(attr, code) == [cls |-> "APIError", msg |-> <<>>, attr |-> attr, status_code |-> code]
NoExc == Exc("", <<>>)

Answer(label, text) == [label |-> label, text |-> text]
NoAnswer == Answer("", <<>>)

FALLBACK == "I couldn't find any relevant documents to answer your question."
TRY_AGAIN == "An error occurred while processing your query. Please try again."
ERROR_PREFIX == "Error processing your query: "
MODEL_NOT_FOUND == "SERVICE_ERROR: Model 'claude-haiku-4-5' not found. Please check your model configuration."
SERVICE_TRY_AGAIN == "SERVICE_ERROR: Unable to generate a response. Please try again or check the server logs."
SERVICE_ERROR_TEXT == "SERVICE_ERROR: Unable to generate a response. Error: "

(***************************************************************************)
(* LLMService.generate_answer                                              *)
(***************************************************************************)
\* getattr(e, 'status_code', None) inside its own try/except
StatusCode(e) == IF e.attr = "present" THEN PInt(e.status_code) ELSE PNone

\* what the provider call and the reading of response.content[0].text do
ProviderOutcomes ==
    { [raised |-> FALSE, text |-> Rep("w", 5), exc |-> NoExc] }
    \cup { [raised |-> TRUE, text |-> <<>>, exc |-> e] :
             e \in { ApiError("present", 404), ApiError("present", 500),
                     ApiError("absent", 0), ApiError("raises", 404),
                     Exc("KeyError", <<"'", "t", "y", "p", "e", "'">>),
                     Exc("AttributeError", Rep("a", 40)),
                     Exc("TypeError", Rep("t", 40)),
                     Exc("IndexError", Rep("i", 24)),
                     Exc("RuntimeError", Rep("r", 100)),
                     Exc("RuntimeError", Rep("r", 101)),
                     Exc("RuntimeError", Rep("r", 150)) } }

\* variant: the last except clause re-raises
generate_answer_Reraise(outcome) ==
    IF ~outcome.raised THEN Returned(Answer("LLM", outcome.text))
    ELSE IF outcome.exc.cls = "APIError" THEN
        IF StatusCode(outcome.exc) = PInt(404)
        THEN Returned(Answer(MODEL_NOT_FOUND, <<>>))
        ELSE Returned(Answer(SERVICE_TRY_AGAIN, <<>>))
    ELSE IF outcome.exc.cls \in {"KeyError", "AttributeError", "TypeError"}
    THEN Returned(Answer(SERVICE_TRY_AGAIN, <<>>))
    ELSE Raised(outcome.exc.cls)

generate_answer(outcome) ==
    IF ~outcome.raised THEN Returned(Answer("LLM", outcome.text))
    ELSE IF outcome.exc.cls = "APIError" THEN
        IF StatusCode(outcome.exc) = PInt(404)
        THEN Returned(Answer(MODEL_NOT_FOUND, <<>>))
        ELSE Returned(Answer(SERVICE_TRY_AGAIN, <<>>))
    ELSE IF outcome.exc.cls \in {"KeyError", "AttributeError", "TypeError"}
    THEN Returned(Answer(SERVICE_TRY_AGAIN, <<>>))
    ELSE Returned(Answer(SERVICE_ERROR_TEXT, Take(outcome.exc.msg, 100)))

(***************************************************************************)
(* SearchService.get_context                                               *)
(***************************************************************************)
Truthy(x) ==
    CASE x.t = "str"  -> x.v # <<>>
      [] x.t = "int"  -> x.v # 0
      [] x.t = "bool" -> x.v
      [] x.t = "list" -> x.v # <<>>
      [] x.t = "none" -> FALSE
      [] OTHER -> TRUE

\* match['metadata'].get('text', '')
MatchText(match) ==
    IF "text" \in DOMAIN match.metadata THEN match.metadata["text"] ELSE PStr(<<>>)

\* variant: matches without usable text are not skipped
ExtractTexts_NoSkip(matches) == [k \in DOMAIN matches |-> MatchText(matches[k])]

ExtractTexts(matches) ==
    LET usable(m) == Truthy(MatchText(m))
        kept == SelectSeq(matches, usable)
    IN  [k \in DOMAIN kept |-> MatchText(kept[k])]

SEPARATOR == "\n\n---\n\n"

\* the results of cohere rerank(documents, top_n): indexes into documents
RerankResults(n, top_n) == UNION {Arrangements(1..n, m) : m \in 0..Min(top_n, n)}

Retrieval(ok, context, exc, reranked) ==
    [ok |-> ok, context |-> context, exc |-> exc, reranked |-> reranked]
NoRetrieval == Retrieval(TRUE, <<>>, NoExc, FALSE)

\* "\n\n---\n\n".join(final_context_chunks); join raises on a non-str item
AssembleContext(chunks, results) ==
    IF \A k \in DOMAIN results : chunks[results[k]].t = "str"
    THEN Retrieval(TRUE, JoinPieces([k \in DOMAIN results |-> chunks[results[k]].v], <<SEPARATOR>>),
                   NoExc, TRUE)
    ELSE Retrieval(FALSE, <<>>, Exc("TypeError", Rep("j", 52)), TRUE)

\* str(KeyError(key)) is repr(key)
KeyErrorOf(key) == Exc("KeyError", <<"'">> \o key \o <<"'">>)
\* "<what> has no attribute '<name>'"
AttributeErrorOf(what, name) ==
    Exc("AttributeError", what \o <<" ", "h", "a", "s", " ", "n", "o", " ", "a", "t", "t", "r", "i", "b", "u", "t", "e", " ", "'">>
                               \o name \o <<"'">>)

\* errors of the embedding model, the index and the reranker
RetrievalErrors ==
    { KeyErrorOf(<<"m", "a", "t", "c", "h", "e", "s">>),
      KeyErrorOf(Rep("k", 48)),
      AttributeErrorOf(<<"m", "o", "d", "u", "l", "e">>, <<"i", "n", "d", "e", "x">>),
      Exc("PineconeException", Rep("p", 250)),
      Exc("TimeoutError", <<>>),
      Exc("CohereError", <<" ">> \o Rep("c", 60) \o <<" ">>) }

\* every outcome of one get_context(query, user_id) call on index idx; the
\* query text acts only through what the three providers return
get_context(idx, user_id) ==
    { Retrieval(FALSE, <<>>, e, FALSE) : e \in RetrievalErrors }
    \cup UNION { IF matches = <<>> THEN { Retrieval(TRUE, <<>>, NoExc, FALSE) }
                 ELSE LET chunks == ExtractTexts(matches)
                      IN  IF chunks = <<>> THEN { Retrieval(TRUE, <<>>, NoExc, FALSE) }
                          ELSE { Retrieval(FALSE, <<>>, e, TRUE) : e \in RetrievalErrors }
                               \cup { AssembleContext(chunks, r) :
                                        r \in RerankResults(Len(chunks), RERANK_LIMIT) }
                 : matches \in QueryMatches(idx, user_id, RETRIEVAL_LIMIT) }

(***************************************************************************)
(* query_rag                                                               *)
(***************************************************************************)
Whitespace == {" ", "\n", "\t", "\r"}

RECURSIVE LStrip(_)
LStrip(s) == IF s # <<>> /\ Head(s) \in Whitespace THEN LStrip(Tail(s)) ELSE s
RECURSIVE RStrip(_)
RStrip(s) == IF s # <<>> /\ s[Len(s)] \in Whitespace THEN RStrip(SubSeq(s, 1, Len(s) - 1)) ELSE s
Strip(s) == RStrip(LStrip(s))

StartsWith(s, c) == s # <<>> /\ s[1] = c
EndsWith(s, c) == s # <<>> /\ s[Len(s)] = c

\* the except clause: raw = str(e)[:200].strip() and the choice of answer
ErrorAnswer(e) ==
    LET raw == Strip(Take(e.msg, 200))
    IN  IF raw = <<>> THEN Answer(TRY_AGAIN, <<>>)
        ELSE IF Len(raw) < 50
                /\ (\/ (StartsWith(raw, "'") /\ EndsWith(raw, "'"))
                    \/ (StartsWith(raw, "\"") /\ EndsWith(raw, "\""))) THEN Answer(TRY_AGAIN, <<>>)
        ELSE Answer(ERROR_PREFIX, raw)

ChatResponse(answer, status) == [answer |-> answer, status |-> status]
NoResponse == ChatResponse(NoAnswer, "")

Query(pc, user_id, retrieval, generated, gen, response) ==
    [pc |-> pc, user_id |-> user_id, retrieval |-> retrieval, generated |-> generated,
     gen |-> gen, response |-> response]
NoGen == [outcome |-> [raised |-> FALSE, text |-> <<>>, exc |-> NoExc], result |-> NoAnswer, raised |-> FALSE]

\* variant: an exception of get_context leaves query_rag unanswered
QueryRetrieve_Raise(user_id) ==
    /\ started
    /\ q.pc \in {"idle", "done"}
    /\ \E r \in get_context(index, user_id) :
          q' = IF ~r.ok
               THEN Query("done", user_id, r, FALSE, NoGen, NoResponse)
               ELSE IF r.context = <<>>
               THEN Query("done", user_id, r, FALSE, NoGen, ChatResponse(Answer(FALLBACK, <<>>), "success"))
               ELSE Query("generate", user_id, r, FALSE, NoGen, NoResponse)
    /\ UNCHANGED <<sanvars, status_resp, started, model_loads, vector_model, search_model,
                   shared_model, index, fs, uuids, upload_resp, jobs>>

\* query_rag up to its await of generate_answer
QueryRetrieve(user_id) ==
    /\ started
    /\ q.pc \in {"idle", "done"}
    /\ \E r \in get_context(index, user_id) :
          q' = IF ~r.ok
               THEN Query("done", user_id, r, FALSE, NoGen, ChatResponse(ErrorAnswer(r.exc), "error"))
               ELSE IF r.context = <<>>
               THEN Query("done", user_id, r, FALSE, NoGen, ChatResponse(Answer(FALLBACK, <<>>), "success"))
               ELSE Query("generate", user_id, r, FALSE, NoGen, NoResponse)
    /\ UNCHANGED <<sanvars, status_resp, started, model_loads, vector_model, search_model,
                   shared_model, index, fs, uuids, upload_resp, jobs>>

\* variant: a failed generation is reported with status error
QueryGenerate_FlagFailure ==
    /\ q.pc = "generate"
    /\ \E outcome \in ProviderOutcomes :
          LET res == generate_answer(outcome)
          IN  q' = [q EXCEPT !.pc = "done", !.generated = TRUE,
                             !.gen = [outcome |-> outcome,
                                      result |-> IF res.ok THEN res.val ELSE NoAnswer,
                                      raised |-> ~res.ok],
                             !.response = IF res.ok /\ ~outcome.raised
                                          THEN ChatResponse(res.val, "success")
                                          ELSE IF res.ok THEN ChatResponse(res.val, "error")
                                          ELSE ChatResponse(ErrorAnswer(outcome.exc), "error")]
    /\ UNCHANGED <<sanvars, status_resp, started, model_loads, vector_model, search_model,
                   shared_model, index, fs, uuids, upload_resp, jobs>>

\* generate_answer and the return of ChatResponse(answer=answer)
QueryGenerate ==
    /\ q.pc = "generate"
    /\ \E outcome \in ProviderOutcomes :
          LET res == generate_answer(outcome)
          IN  q' = [q EXCEPT !.pc = "done", !.generated = TRUE,
                             !.gen = [outcome |-> outcome,
                                      result |-> IF res.ok THEN res.val ELSE NoAnswer,
                                      raised |-> ~res.ok],
                             !.response = IF res.ok THEN ChatResponse(res.val, "success")
                                          ELSE ChatResponse(ErrorAnswer(outcome.exc), "error")]
    /\ UNCHANGED <<sanvars, status_resp, started, model_loads, vector_model, search_model,
                   shared_model, index, fs, uuids, upload_resp, jobs>>

(***************************************************************************)
(* Specifications                                                          *)
(***************************************************************************)
InitSystem ==
    /\ started = FALSE
    /\ model_loads = 0
    /\ vector_model = 0
    /\ search_model = 0
    /\ shared_model = 0
    /\ index = <<>>
    /\ fs = {}
    /\ uuids = 0
    /\ upload_resp = UploadResponse(0, "", NoRequest)
    /\ jobs = <<>>
    /\ q = Query("idle", "", NoRetrieval, FALSE, NoGen, NoResponse)
    /\ status_resp = NoStatus

Init ==
    /\ san_in = <<>>
    /\ san_out = <<>>
    /\ InitSystem

\* direct upsert_chunks calls and queries on one index
MaxCalls == 2

Next ==
    \/ ImportServices
    \/ \E chunks \in DirectInputs : Len(jobs) < MaxCalls /\ UpsertChunks(chunks)
    \/ \E j \in DOMAIN jobs : UpsertBatch(j)
    \/ \E u \in Users : QueryRetrieve(u)
    \/ QueryGenerate

Spec == Init /\ [][Next]_vars

\* uploads and their ingestion pipelines
MaxUuids == 1

\* the body size a Content-Length header declares, a small body without one
DeclaredSize(cl) == IF cl.given /\ cl.int THEN cl.n ELSE 1024

NextIngest ==
    \/ ImportServices
    \/ \E cl \in ContentLengths, name \in FileNames, u \in Users,
          save \in {"ok", "open_raises", "copy_raises"}, doc \in SmallDocs :
            uuids < MaxUuids /\ upload_document(cl, DeclaredSize(cl), name, u, save, doc)
    \/ \E j \in DOMAIN jobs : ProcessFile(j)
    \/ \E j \in DOMAIN jobs : UpsertBatch(j)
    \/ \E j \in DOMAIN jobs : Cancel(j)
    \/ \E j \in DOMAIN jobs : Finally(j)

SpecIngest == Init /\ [][NextIngest]_vars

\* ingestion of documents that span several batches (cancellation is part
\* of SpecIngest)
MaxBatchJobs == 1

NextBatch ==
    \/ ImportServices
    \/ \E u \in Users, doc \in LargeDocs :
            /\ Len(jobs) < MaxBatchJobs
            /\ upload_document([given |-> FALSE, int |-> FALSE, n |-> 0], 1024,
                               FileName("report", ".pdf"), u, "ok", doc)
    \/ \E j \in DOMAIN jobs : ProcessFile(j)
    \/ \E j \in DOMAIN jobs : UpsertBatch(j)
    \/ \E j \in DOMAIN jobs : Finally(j)

SpecBatch == Init /\ [][NextBatch]_vars

\* uploads of every kind, without the pipelines they schedule
NextUpload ==
    \/ ImportServices
    \/ \E cl \in ContentLengths, size \in PayloadSizes, name \in FileNames, u \in Users,
          save \in {"ok", "open_raises", "copy_raises"}, doc \in SmallDocs :
            uuids < MaxUuids /\ upload_document(cl, size, name, u, save, doc)

SpecUpload == Init /\ [][NextUpload]_vars

\* status polls while a document of two batches is ingested
PolledFileIds == {Uuid4(n) : n \in 1..uuids} \cup {"unknown"}

NextStatus ==
    \/ ImportServices
    \/ \E u \in Users, doc \in LargeDocs :
            /\ Len(jobs) < MaxBatchJobs
            /\ Len(doc.chunks) = batch_size + 1
            /\ upload_document([given |-> FALSE, int |-> FALSE, n |-> 0], 1024,
                               FileName("report", ".pdf"), u, "ok", doc)
    \/ \E j \in DOMAIN jobs : ProcessFile(j)
    \/ \E j \in DOMAIN jobs : UpsertBatch(j)
    \/ \E j \in DOMAIN jobs : Finally(j)
    \/ \E file_id \in PolledFileIds, u \in Users : get_processing_status(file_id, u)

SpecStatus == Init /\ [][NextStatus]_vars

(***************************************************************************)
(* Sanitization on its own: every metadata dict with at most MaxFields     *)
(* fields, keys and values drawn from the samples below.                   *)
(***************************************************************************)
MaxFields == 2

SampleKeys == {"user_id", "page_number", "coordinates", "metadata_json"}

SampleValues == {
    PStr(<<"a">>), PStr(<<>>), PInt(7), PFloat("1.5"), PBool(TRUE), PNone,
    PList(<<>>), PList(<<PStr(<<"a">>), PStr(<<"b">>)>>),
    PList(<<PStr(<<"a">>), PInt(1)>>), PList(<<PObj("b'x'", TRUE)>>),
    PDict([x |-> PInt(1)]), PDict([x |-> PObj("b'x'", TRUE)]),
    PObj("(1, 2)", TRUE), PObj("<Broken>", FALSE) }

SampleMetadata ==
    UNION { [S -> SampleValues] : S \in {T \in SUBSET SampleKeys : Cardinality(T) <= MaxFields} }

InitSan ==
    /\ san_in \in SampleMetadata
    /\ san_out = <<>>
    /\ InitSystem

Sanitize ==
    /\ san_out = <<>>
    /\ san_out' = <<_sanitize_metadata(san_in)>>
    /\ UNCHANGED <<san_in, sysvars>>

\* the returned dict is sanitized again
Resanitize ==
    /\ Len(san_out) = 1
    /\ san_out[1].ok
    /\ san_out' = Append(san_out, _sanitize_metadata(san_out[1].val))
    /\ UNCHANGED <<san_in, sysvars>>

NextSan == Sanitize \/ Resanitize

SpecSan == InitSan /\ [][NextSan]_vars

(***************************************************************************)
(* Properties                                                              *)
(***************************************************************************)
Callers == {jobs[j] : j \in DOMAIN jobs}
NumOk(job) == Cardinality({c \in DOMAIN job.upsert_calls : job.upsert_calls[c].ok})

\* the vectors of the c-th index.upsert call of a caller
CallVectors(job, c) == VectorsToUpsert(Batch(job.chunks, (c - 1) * batch_size))

\* every vector handed to index.upsert so far, and those that were stored
PassedVectors ==
    UNION {UNION {Range(CallVectors(job, c)) : c \in DOMAIN job.upsert_calls} : job \in Callers}
StoredVectors ==
    UNION {UNION {Range(CallVectors(job, c)) :
                     c \in {cc \in DOMAIN job.upsert_calls : job.upsert_calls[cc].ok}} :
              job \in Callers}

Asked == q.pc # "idle"

\* C1: a context returned to tenant B is made only of texts of records stored
\* with user_id B; a text stored only under another user_id never appears in it
C1_TenantIsolation ==
    Asked =>
      /\ \A piece \in Range(q.retrieval.context) \ {SEPARATOR} :
            \E w \in StoredVectors :
               /\ UserFilter(w.metadata, q.user_id)
               /\ MatchText(w) = PStr(<<piece>>)
      /\ \A w \in StoredVectors :
            ( /\ MatchText(w).t = "str" /\ Len(MatchText(w).v) = 1
              /\ "user_id" \in DOMAIN w.metadata
              /\ w.metadata["user_id"] # PStr(<<q.user_id>>)
              /\ \A x \in StoredVectors :
                    MatchText(x) = MatchText(w) =>
                       "user_id" \in DOMAIN x.metadata
                       /\ x.metadata["user_id"] = w.metadata["user_id"] )
            => MatchText(w).v[1] \notin Range(q.retrieval.context)

C1_Witness ==
    /\ q.pc = "done" /\ q.user_id = "B"
    /\ "alpha" \in Range(q.retrieval.context)
    /\ \E w \in StoredVectors :
          UserFilter(w.metadata, "A") /\ MatchText(w) = PStr(<<"onlyA">>)

\* C2: every vector passed to index.upsert carries a non-empty string user_id,
\* the tenant identifier given at ingestion
C2_EveryRecordTagged ==
    \A job \in Callers : \A c \in DOMAIN job.upsert_calls :
       \A w \in Range(CallVectors(job, c)) :
          /\ "user_id" \in DOMAIN w.metadata
          /\ w.metadata["user_id"].t = "str"
          /\ w.metadata["user_id"].v # <<>>
          /\ job.kind = "pipeline" => w.metadata["user_id"] = PStr(<<job.user>>)

\* C3: the finally block runs exactly once per ingestion, on every exit path,
\* and unless the removal itself failed the file is gone afterwards
C3_CleanupOnce ==
    \A job \in Callers :
       job.kind = "pipeline" =>
          /\ job.pc # "done" => job.cleanups = 0 /\ job.file_path \in fs
          /\ job.pc = "done" =>
                /\ job.cleanups = 1
                /\ job.exit \in {"success", "zero_chunks", "parse_error", "upsert_error", "cancelled"}
                /\ ~job.remove_failed => job.file_path \notin fs

C3_Witness ==
    \E job \in Callers :
       /\ job.kind = "pipeline" /\ job.pc = "done" /\ job.exit = "cancelled"
       /\ job.cleanups = 1 /\ job.file_path \notin fs

\* C4: once a batch has failed the call has ended with the error, the batches
\* before it are in the index as upserted, and no later batch is embedded or upserted
FailedBatch(job) == Len(job.encode_calls) > NumOk(job)

C4_AbortOnBatchFailure ==
    \A job \in Callers :
       FailedBatch(job) =>
          LET k == NumOk(job)
          IN  /\ job.pc \in {"finally", "done"} /\ job.exit = "upsert_error"
              /\ job.i = k * batch_size
              /\ Len(job.encode_calls) = k + 1
              /\ Len(job.upsert_calls) <= k + 1
              /\ \A c \in 1..k : job.upsert_calls[c].ok
              /\ \A n \in 1..(k * batch_size) :
                    /\ job.chunks[n].id \in DOMAIN index
                    /\ index[job.chunks[n].id] = _sanitize_metadata(job.chunks[n].metadata).val

C4_Witness ==
    \E job \in Callers :
       /\ FailedBatch(job) /\ NumOk(job) = 1
       /\ Len(job.chunks) > 2 * batch_size
       /\ job.chunks[batch_size].id \in DOMAIN index
       /\ job.chunks[batch_size + 1].id \notin DOMAIN index

\* C5: generate_answer always returns: 404 gives the model-not-found message,
\* other API errors and KeyError/AttributeError/TypeError the try-again
\* message, anything else the generic message with at most 100 characters of
\* the error text
C5_GeneratorContainsErrors ==
    q.generated =>
       LET e == q.gen.outcome.exc
           a == q.gen.result
       IN  /\ ~q.gen.raised
           /\ q.gen.outcome.raised =>
                IF e.cls = "APIError"
                THEN IF e.attr = "present" /\ e.status_code = 404
                     THEN a = Answer(MODEL_NOT_FOUND, <<>>)
                     ELSE a = Answer(SERVICE_TRY_AGAIN, <<>>)
                ELSE IF e.cls \in {"KeyError", "AttributeError", "TypeError"}
                THEN a = Answer(SERVICE_TRY_AGAIN, <<>>)
                ELSE /\ a.label = SERVICE_ERROR_TEXT
                     /\ Len(a.text) <= 100
                     /\ a.text = SubSeq(e.msg, 1, Len(a.text))

C5_Witness ==
    /\ q.generated /\ q.gen.outcome.raised
    /\ q.gen.outcome.exc.cls = "RuntimeError"
    /\ Len(q.gen.outcome.exc.msg) > 100
    /\ Len(q.gen.result.text) = 100

\* C6: an answered query carries a ChatResponse with status success or error
\* and a message; an exception out of get_context gives status error
C6_QueryNeverRaises ==
    q.pc = "done" =>
       /\ q.response.status \in {"success", "error"}
       /\ q.response.answer.label # ""
       /\ ~q.retrieval.ok => q.response.status = "error"

C6_Witness ==
    /\ q.pc = "done" /\ ~q.retrieval.ok /\ q.retrieval.reranked
    /\ q.response.status = "error"

\* C7: a query whose tenant has no record with usable text in the index gets
\* the empty context without a rerank call, and the fixed fallback answer
\* with status success without a generate call
UsableTexts(idx, user_id) ==
    {id \in Filtered(idx, user_id) : Truthy(MatchText([id |-> id, metadata |-> idx[id]]))}

C7_EarlyTermination ==
    [][ (q.pc \in {"idle", "done"} /\ q' # q /\ UsableTexts(index, q'.user_id) = {}) =>
           /\ ~q'.retrieval.reranked
           /\ q'.retrieval.ok =>
                 /\ q'.retrieval.context = <<>>
                 /\ q'.pc = "done" /\ ~q'.generated
                 /\ q'.response = ChatResponse(Answer(FALLBACK, <<>>), "success") ]_vars

C7_Witness ==
    /\ q.pc = "done" /\ q.user_id = "B" /\ q.retrieval.ok
    /\ Filtered(index, "B") # {} /\ UsableTexts(index, "B") = {}
    /\ q.response = ChatResponse(Answer(FALLBACK, <<>>), "success")

\* C8: the embedding model is loaded at most once, both services use that one
\* instance, and it is loaded no earlier than the first embedding request
EmbeddingRequested ==
    Asked \/ \E job \in Callers : job.encode_calls # <<>>

C8_SingleLazyModel ==
    /\ model_loads <= 1
    /\ started => vector_model = search_model
    /\ model_loads > 0 => EmbeddingRequested

\* C9: every value _sanitize_metadata returns is a string, a number, a
\* boolean or a list of strings
Allowed(x) == IsPrimitive(x) \/ (x.t = "list" /\ AllStrings(x.v))
Disallowed(x) == ~Allowed(x)

C9_SanitizedTypes ==
    \A n \in DOMAIN san_out :
       san_out[n].ok => \A k \in DOMAIN san_out[n].val : Allowed(san_out[n].val[k])

C9_Witness ==
    /\ san_out # <<>> /\ san_out[1].ok
    /\ \E k \in DOMAIN san_in : Disallowed(san_in[k]) /\ k \in DOMAIN san_out[1].val

\* C10 as stated: a field whose raw value is neither a scalar nor a list of
\* strings is JSON text if its key is on the allowlist and absent otherwise
IsJsonOf(out, raw) == JsonSerializable(raw) /\ out = PStr(json_dumps(raw))

C10_Original ==
    (san_out # <<>> /\ san_out[1].ok) =>
       \A k \in DOMAIN san_in :
          Disallowed(san_in[k]) =>
             IF k \in json_fields
             THEN k \in DOMAIN san_out[1].val /\ IsJsonOf(san_out[1].val[k], san_in[k])
             ELSE k \notin DOMAIN san_out[1].val

\* C10 amended: a dict or a list with a non-string element is JSON text if its
\* key is on the allowlist and absent otherwise; None is absent; a value of
\* any other type is its str() text under any key not on the exclusion list,
\* and absent when str() fails
C10_ComplexFields ==
    (san_out # <<>> /\ san_out[1].ok) =>
       \A k \in DOMAIN san_in :
          LET raw == san_in[k]
              out == san_out[1].val
          IN  /\ (raw.t = "dict" \/ (raw.t = "list" /\ ~AllStrings(raw.v))) =>
                    IF k \in json_fields
                    THEN k \in DOMAIN out /\ IsJsonOf(out[k], raw)
                    ELSE k \notin DOMAIN out
              /\ raw.t = "none" => k \notin DOMAIN out
              /\ raw.t = "obj" =>
                    IF k \notin exclude_fields /\ raw.v.str_ok
                    THEN k \in DOMAIN out /\ out[k] = PStr(<<raw.v.repr>>)
                    ELSE k \notin DOMAIN out

C10_Witness ==
    /\ san_out # <<>> /\ san_out[1].ok
    /\ "metadata_json" \in DOMAIN san_in /\ san_in["metadata_json"].t = "dict"
    /\ "page_number" \in DOMAIN san_in /\ san_in["page_number"].t = "dict"
    /\ DOMAIN san_out[1].val = {"metadata_json"}

\* C11: sanitizing a sanitized dict returns it unchanged
C11_Idempotent ==
    Len(san_out) = 2 => (san_out[2].ok /\ san_out[2].val = san_out[1].val)

C11_Witness ==
    /\ Len(san_out) = 2
    /\ san_out[1].val # san_in
    /\ \E k \in DOMAIN san_out[1].val : san_out[1].val[k] # san_in[k]
    /\ san_out[2] = san_out[1]

\* C12: a call that ended without failure on N chunks made ceil(N/100) upsert
\* calls and as many embedding calls; each call carries at most 100 records,
\* the embedding call of a batch carries the texts of that batch, and the
\* calls taken one after the other are the input in its order
RECURSIVE Concat(_)
Concat(seqs) == IF seqs = <<>> THEN <<>> ELSE Head(seqs) \o Concat(Tail(seqs))

CeilDiv(n, d) == (n + d - 1) \div d

C12_BatchPartition ==
    \A job \in Callers :
       job.exit \in {"success", "empty"} =>
          LET N == Len(job.chunks)
              calls == CeilDiv(N, batch_size)
          IN  /\ Len(job.upsert_calls) = calls
              /\ Len(job.encode_calls) = calls
              /\ \A c \in 1..calls :
                    /\ job.upsert_calls[c].ok
                    /\ Len(job.upsert_calls[c].ids) \in 1..batch_size
                    /\ Len(job.encode_calls[c]) = Len(job.upsert_calls[c].ids)
              /\ Concat([c \in 1..calls |-> job.upsert_calls[c].ids]) = Ids(job.chunks)
              /\ Concat(job.encode_calls) = Texts(job.chunks)

C12_Witness ==
    \E job \in Callers :
       /\ job.exit = "success" /\ Len(job.chunks) = 2 * batch_size + 1
       /\ Len(job.upsert_calls) = 3 /\ Len(job.upsert_calls[3].ids) = 1

\* C13: the chunks of a document are its elements in source order, chunk n
\* (from 0) has the id file_id#chunk{n}, the ids are pairwise distinct, and
\* the ids handed to index.upsert, call after call, are those ids in that order
C13_ChunkIdsInOrder ==
    \A job \in Callers :
       (job.kind = "pipeline" /\ job.chunks # <<>>) =>
          LET file_id == job.metadata["file_id"].v
              sent == Concat([c \in DOMAIN job.upsert_calls |-> job.upsert_calls[c].ids])
          IN  /\ Len(job.chunks) = Len(job.doc.chunks)
              /\ \A n \in DOMAIN job.chunks :
                    /\ job.chunks[n].text = job.doc.chunks[n].page_content
                    /\ job.chunks[n].id = file_id \o <<"#chunk", ToString(n - 1)>>
              /\ Cardinality(Range(Ids(job.chunks))) = Len(job.chunks)
              /\ Len(sent) <= Len(job.chunks)
              /\ sent = SubSeq(Ids(job.chunks), 1, Len(sent))

C13_Witness ==
    \E job \in Callers :
       /\ job.kind = "pipeline" /\ Len(job.chunks) = MaxChunks
       /\ Len(job.upsert_calls) = 2
       /\ job.upsert_calls[2].ids[1] = job.metadata["file_id"].v \o <<"#chunk", ToString(batch_size)>>
       /\ job.doc.chunks[1] # job.doc.chunks[MaxChunks]

\* C14: the answer to a failed query is built from the message cut to 200
\* characters by the empty / short-quoted-token rule, and the text of a
\* KeyError or an AttributeError is never part of the answer
Failed == q.pc = "done" /\ ~q.retrieval.ok

\* the message cut to 200 characters, without surrounding whitespace
Shown(msg) ==
    LET cut == SubSeq(msg, 1, Min(200, Len(msg)))
        inked == {i \in DOMAIN cut : cut[i] \notin Whitespace}
    IN  IF inked = {} THEN <<>>
        ELSE SubSeq(cut, CHOOSE i \in inked : \A k \in inked : i <= k,
                         CHOOSE i \in inked : \A k \in inked : k <= i)

QuotedToken(s) ==
    /\ Len(s) < 50
    /\ \E c \in {"'", "\""} : s[1] = c /\ s[Len(s)] = c

TruncationRule ==
    Failed =>
       LET raw == Shown(q.retrieval.exc.msg)
       IN  /\ q.response.status = "error"
           /\ q.response.answer =
                 IF raw = <<>> \/ QuotedToken(raw)
                 THEN Answer(TRY_AGAIN, <<>>)
                 ELSE Answer(ERROR_PREFIX, raw)

C14_NoInternalNames ==
    /\ TruncationRule
    /\ (Failed /\ q.retrieval.exc.cls \in {"KeyError", "AttributeError"}) =>
          q.response.answer = Answer(TRY_AGAIN, <<>>)

\* C15: a status response 'completed' for (file_id, user_id) is given only
\* when the ingestion of that upload has ended successfully
IngestionOf(file_id, user_id) ==
    {job \in Callers : /\ job.kind = "pipeline"
                       /\ job.metadata["file_id"] = PStr(<<file_id>>)
                       /\ job.user = user_id}

C15_CompletedOnlyAfterSuccess ==
    status_resp.status = "completed" =>
       \E job \in IngestionOf(status_resp.file_id, status_resp.user_id) :
          job.exit = "success"

\* C16: an upload with a missing filename, a disallowed extension, a body
\* larger than MAX_UPLOAD_MB or a failed save is answered 400, 400, 413 or
\* 500; only an upload that passed every check and was saved is answered 200
\* and has its pipeline scheduled
Oversize(req) == req.size > MAX_UPLOAD_MB * 1024 * 1024
Answered == upload_resp.code # 0

C16_UploadValidation ==
    /\ Answered =>
          LET req == upload_resp.req
              defects == {d \in {"size", "name", "type", "save"} :
                            \/ d = "size" /\ Oversize(req)
                            \/ d = "name" /\ req.name = NoFileName
                            \/ d = "type" /\ req.name # NoFileName
                                           /\ Extension(req.name) \notin {".pdf", ".txt", ".html"}
                            \/ d = "save" /\ req.save # "ok"}
          IN  /\ upload_resp.code \in {200, 400, 413, 500}
              /\ upload_resp.code = 200 <=> defects = {}
              /\ upload_resp.code = 413 => "size" \in defects
              /\ upload_resp.code = 400 => defects \cap {"name", "type"} # {}
              /\ upload_resp.code = 500 => "save" \in defects
    /\ \A job \in Callers :
          job.kind = "pipeline" =>
             /\ job.metadata["extension"].v[1] \in {".pdf", ".txt", ".html"}
             /\ job.metadata["filename"].v # <<"">>
             /\ job.pc = "process_file" => job.file_path \in fs
    /\ Len(jobs) <= uuids

\* C17: a document without chunks ends the pipeline by a normal return, with
\* no error logged and no embedding or upsert call; an error of the parse
\* phase or of the upsert phase is logged once and raised to the caller
Parsed(job) == job.pc # "process_file" /\ job.exit # "cancelled"

C17_ZeroChunksNoOp ==
    \A job \in Callers :
       job.kind = "pipeline" =>
          /\ (Parsed(job) /\ job.doc.ok /\ job.doc.chunks = <<>>) =>
                /\ job.exit = "zero_chunks"
                /\ job.raised = "" /\ job.error_logs = 0
                /\ job.encode_calls = <<>> /\ job.upsert_calls = <<>>
                /\ job.pc = "done" => job.result = "returned"
          /\ ((Parsed(job) /\ ~job.doc.ok) \/ FailedBatch(job)) =>
                /\ job.exit \in {"parse_error", "upsert_error"}
                /\ job.raised # "" /\ job.error_logs = 1
                /\ job.pc = "done" => job.result = "raised"
          /\ job.pc = "done" => job.result \in {"returned", "raised"}

C17_Witness ==
    \E job \in Callers :
       /\ job.kind = "pipeline" /\ job.pc = "done"
       /\ job.doc.ok /\ job.doc.chunks = <<>>
       /\ job.exit = "zero_chunks" /\ job.result = "returned"
       /\ job.file_path \notin fs

\* C18: the status of an answered query is error exactly when get_context or
\* generate_answer raised into query_rag; a failure of the provider inside
\* generate_answer gives the SERVICE_ERROR text as the answer with status
\* success
C18_GenerationFailureIsSuccess ==
    q.pc = "done" =>
       /\ q.response.status = "error" <=> (~q.retrieval.ok \/ q.gen.raised)
       /\ (q.generated /\ q.gen.outcome.raised) =>
             /\ q.retrieval.ok /\ q.retrieval.context # <<>>
             /\ q.response.status = "success"
             /\ q.response.answer = q.gen.result
             /\ q.response.answer.label \in {MODEL_NOT_FOUND, SERVICE_TRY_AGAIN, SERVICE_ERROR_TEXT}

C18_Witness ==
    /\ q.pc = "done" /\ q.generated
    /\ q.gen.outcome.raised /\ q.gen.outcome.exc.cls = "APIError"
    /\ q.response = ChatResponse(Answer(SERVICE_TRY_AGAIN, <<>>), "success")

\* C19: two records written under the same id carry the same user_id, and
\* the record the index holds under an id carries the user_id of every
\* record stored under that id before
Tenant(metadata) == IF "user_id" \in DOMAIN metadata THEN metadata["user_id"] ELSE PNone

C19_NoCrossTenantOverwrite ==
    \A w \in StoredVectors :
       Tenant(w.metadata) # PNone =>
          /\ w.id \in DOMAIN index
          /\ Tenant(index[w.id]) = Tenant(w.metadata)
          /\ \A x \in StoredVectors : x.id = w.id => Tenant(x.metadata) = Tenant(w.metadata)

====
